---- MODULE Spec2Model ----
(***************************************************************************)
(* Model of the document generation pipeline of linearcombination/DOC:     *)
(* DocumentGenerator (document_generator.py) drives a list of Resource     *)
(* objects (resource.py) through find_location, get_files,                 *)
(* initialize_from_assets and get_content, then assembles their content    *)
(* and calls the typesetter.  The pipeline is sequential; pc and idx hold  *)
(* the position of the single thread of control inside run().              *)
(*                                                                         *)
(* Text is modelled by the sequence of the link tokens it holds: a raw     *)
(* locator ([kind |-> "rc"]) or a hyperlink ([kind |-> "link"]).  Paths    *)
(* and URLs are sequences of path segments.                                *)
(*                                                                         *)
(* Call sites and definitions are bound by name: run() calls               *)
(* resource.initialize_assets(), defined as initialize_from_assets, and    *)
(* resource_factory receives the assembly strategy kind of the request.    *)
(*                                                                         *)
(* Spec is the pipeline, from DocumentGenerator.__init__ to the response   *)
(* of document_endpoint.  VerseSpec is USFMResource._initialize_verses_html*)
(* applied to the HTML of a scripture book: the assembly strategy table    *)
(* has no verse strategy, so no run of the pipeline reaches that function. *)
(***************************************************************************)
EXTENDS Integers, Sequences, FiniteSets, TLC

\* Longest DocumentRequest.resource_requests explored.
MaxResources == 2
\* Most chapters of a scripture book, and the largest verse number, explored.
MaxChapters == 2
MaxVerse == 3

VARIABLES
    document_request,   \* the incoming DocumentRequest.resource_requests
    document_request_key, \* DocumentGenerator._document_request_key
    pdf_exists,         \* output_dir/<document_request_key>.pdf is a file
    pc,                 \* position of the thread of control
    idx,                \* loop index of the running for-loop
    resources,          \* DocumentGenerator._resources (the Resource instances)
    found_resources,    \* DocumentGenerator.found_resources (indices of resources)
    unfound_resources,  \* DocumentGenerator.unfound_resources
    content,            \* DocumentGenerator.content
    disk,               \* the working directory: directory path -> what it holds
    effects,            \* the operations performed so far, in order
    raised,             \* the exception that ended the run, or NoException
    response,           \* what document_endpoint returned to the caller
    usfm_content,       \* USFMResource._content handed to _initialize_verses_html
    chapters_content,   \* USFMResource._chapters_content
    verses_pc,          \* position of a call of _initialize_verses_html
    verses_raised,      \* the exception that call raised, or "none"
    registry,           \* a Resource whose registry receives registrations
    registered,         \* the registrations made on it so far, in order
    listing,            \* os.listdir(book_dir): the names of the chapter directories
    processed,          \* the chapters the for-loop has processed, in order
    unit_md,            \* the Markdown of a chapter introduction, line by line
    unit_log,           \* the transforms applied to it so far, in order
    t_resource,         \* a resource whose get_content has set its _content
    t_pc,               \* "content_set", then "transformed"
    assembly_strategy_kind,  \* the kind a USFMResource was constructed with
    html_file,          \* the HTML UsfmTransform writes for its content files
    parser_log          \* the steps get_content of the USFMResource has run

verseVars == <<usfm_content, chapters_content, verses_pc, verses_raised>>
pipelineVars == <<document_request, document_request_key, pdf_exists, pc, idx,
                  resources, found_resources, unfound_resources, content, disk,
                  effects, raised, response>>
registerVars == <<registry, registered>>
orderVars == <<listing, processed>>
unitVars == <<unit_md, unit_log>>
transformVars == <<t_resource, t_pc>>
scriptureVars == <<assembly_strategy_kind, html_file, parser_log>>
\* what the pipeline never touches
sideVars == <<verseVars, registerVars, orderVars, unitVars, transformVars, scriptureVars>>
vars == <<pipelineVars, sideVars>>

----------------------------------------------------------------------------
\* Values

NoUrl == <<>>
NoException == [kind |-> "none", res |-> 0]
NoResponse == [finished_document_path |-> <<>>]
NotProcessed == [done |-> FALSE, chapters |-> <<>>]
NoRegistry == [resource_data |-> <<>>, my_rcs |-> <<>>]
Exception(kind, i) == [kind |-> kind, res |-> i]
GIT == "git"
ZIP == "zip"
FLAT == "flat"

\* bible_books.BOOK_NAMES / BOOK_NUMBERS: the codes of the static book table.
BOOK_NAMES == {"gen"}

\* resource_factory's table: the Resource subclass of a resource type.
ResourceClass(resource_type) ==
    CASE resource_type \in {"usfm", "ulb", "ulb-wa", "udb", "udb-wa", "nav", "reg"} -> "USFMResource"
      [] resource_type \in {"tn", "tn-wa"} -> "TNResource"
      [] resource_type \in {"tq", "tq-wa"} -> "TQResource"
      [] resource_type \in {"tw", "tw-wa"} -> "TWResource"
      [] resource_type \in {"ta", "ta-wa"} -> "TAResource"

\* The resource requests the DocumentRequests are drawn from.
ResourceRequests ==
    { [lang_code |-> "en", resource_type |-> "ulb", resource_code |-> "gen"],
      [lang_code |-> "en", resource_type |-> "tn",  resource_code |-> "gen"],
      [lang_code |-> "en", resource_type |-> "tq",  resource_code |-> "gen"],
      [lang_code |-> "fr", resource_type |-> "tn",  resource_code |-> "gen"],
      [lang_code |-> "en", resource_type |-> "tn",  resource_code |-> "zzz"] }

DocumentRequests ==
    UNION { [1..n -> ResourceRequests] : n \in 1..MaxResources }

\* Locators (rc links) are tuples of their path segments after "rc://".
TnBookIntroRc(lang, book) == <<lang, "tn", "help", book, "front", "intro">>
TnChapterIntroRc(lang, book, chapter) == <<lang, "tn", "help", book, chapter, "intro">>
TqBookRc(lang, book) == <<lang, "tq", "help", book>>
TqChapterRc(lang, book, chapter) == <<lang, "tq", "help", book, chapter>>
TqVerseRc(lang, book, chapter, verse) == <<lang, "tq", "help", book, chapter, verse>>
TwGraceRc == <<"en", "tw", "dict", "bible", "kt", "grace">>

\* A link token of a text: a raw locator, or a hyperlink to an anchor.
RcToken(rc) == [kind |-> "rc", rc |-> rc, href |-> <<>>, title |-> ""]
LinkToken(entry) == [kind |-> "link", rc |-> <<>>, href |-> entry.link, title |-> entry.title]
\* text that holds no locator, such as a heading
TextToken(text) == [kind |-> "text", rc |-> <<>>, href |-> <<>>, title |-> text]
RcTokens(rcs) == [k \in 1..Len(rcs) |-> RcToken(rcs[k])]

\* The registry entry written for a locator: {"rc", "id", "link", "title"}.
RegistryEntry(rc, anchor_id, title) ==
    [rc |-> rc, id |-> anchor_id, link |-> <<"#">> \o anchor_id, title |-> title]

\* A file below a resource directory: the names on its path (the last one
\* without its suffix) and its suffix.
File(segs, ext) == [segs |-> segs, ext |-> ext]
GenDir == <<"g", "e", "n">>
Usfm01GEN == File(<<(<<"0", "1", "-", "G", "E", "N">>)>>, "usfm")
Usfm02EXO == File(<<(<<"0", "2", "-", "E", "X", "O">>)>>, "usfm")
TxtGen == File(<<(<<"g", "e", "n">>)>>, "txt")
MdFrontIntro == File(<<GenDir, <<"f", "r", "o", "n", "t">>, <<"i", "n", "t", "r", "o">>>>, "md")
MdChapterIntro == File(<<GenDir, <<"0", "1">>, <<"i", "n", "t", "r", "o">>>>, "md")
MdChunk == File(<<GenDir, <<"0", "1">>, <<"0", "1">>>>, "md")
TxtChunk == File(<<GenDir, <<"0", "1">>, <<"0", "1">>>>, "txt")

\* What a directory of the working directory holds after provisioning;
\* fetched_for tells for which <<lang_code, resource_type>> the files came.
EmptyDir ==
    [populated |-> FALSE, book_dir |-> FALSE, book_intro |-> FALSE,
     chapter_intro |-> FALSE, intro_refs |-> <<>>, note_refs |-> <<>>,
     fetched_for |-> <<>>, files |-> <<>>]
\* a book with front/intro.md, 01/intro.md and 01/01.md, whose book
\* introduction references a translation word and itself; the scripture
\* files 01-GEN.usfm and 02-EXO.usfm
BookWithIntros ==
    [populated |-> TRUE, book_dir |-> TRUE, book_intro |-> TRUE,
     chapter_intro |-> TRUE,
     intro_refs |-> <<TwGraceRc, TnBookIntroRc("en", "gen")>>, note_refs |-> <<>>,
     fetched_for |-> <<>>,
     files |-> <<Usfm01GEN, Usfm02EXO, MdFrontIntro, MdChapterIntro, MdChunk>>]
\* a book with 01/01.md and 01/01.txt, whose note references a translation
\* word; the scripture file gen.txt
BookNotesOnly ==
    [populated |-> TRUE, book_dir |-> TRUE, book_intro |-> FALSE,
     chapter_intro |-> FALSE, intro_refs |-> <<>>, note_refs |-> <<TwGraceRc>>,
     fetched_for |-> <<>>,
     files |-> <<TxtGen, MdChunk, TxtChunk>>]
\* a repository without the requested book: 02-EXO.usfm next to gen.txt
OtherBooksOnly ==
    [populated |-> TRUE, book_dir |-> FALSE, book_intro |-> FALSE,
     chapter_intro |-> FALSE, intro_refs |-> <<>>, note_refs |-> <<>>,
     fetched_for |-> <<>>,
     files |-> <<Usfm02EXO, TxtGen>>]
RemoteAssets == {BookWithIntros, BookNotesOnly, OtherBooksOnly}

\* The chapter directory and chunk file of a book on disk.
ChapterDir == "01"
ChunkFile == "01"

----------------------------------------------------------------------------
\* Resource.__init__ and DocumentGenerator.__init__

\* a Resource.__init__ that does not consult the book table
ResourceInitNeverRaises(resource_request) == FALSE

\* Resource.__init__ raises KeyError for a code outside the book table.
ResourceInitRaises(resource_request) ==
    resource_request.resource_code \notin BOOK_NAMES

\* a resource directory named after the resource type alone
InitialResourceDirByType(lang_code, resource_type) ==
    <<"working", resource_type>>

\* os.path.join(working_dir, "{}_{}".format(lang_code, resource_type))
InitialResourceDir(lang_code, resource_type) ==
    <<"working", lang_code \o "_" \o resource_type>>

\* The instance state set by Resource.__init__.
NewResource(resource_request) ==
    [lang_code |-> resource_request.lang_code,
     resource_type |-> resource_request.resource_type,
     resource_code |-> resource_request.resource_code,
     resource_dir |-> InitialResourceDir(resource_request.lang_code,
                                         resource_request.resource_type),
     resource_url |-> NoUrl,
     resource_source |-> "",
     assets |-> EmptyDir,
     content_files |-> <<>>,
     format |-> "unset",
     content |-> <<>>,
     bad_links |-> {},
     resource_data |-> <<>>,
     my_rcs |-> <<>>,
     rc_references |-> <<>>,
     transforms |-> <<>>]

\* The value of t_resource while no transform is under way.
NoResource == NewResource([lang_code |-> "en", resource_type |-> "tn", resource_code |-> "gen"])

IsUSFM(r) == ResourceClass(r.resource_type) = "USFMResource"

Init ==
    /\ document_request \in DocumentRequests
    /\ document_request_key = <<>>
    /\ pdf_exists \in BOOLEAN
    /\ pc = "new"
    /\ idx = 0
    /\ resources = <<>>
    /\ found_resources = <<>>
    /\ unfound_resources = <<>>
    /\ content = <<>>
    /\ disk = <<>>
    /\ effects = <<>>
    /\ raised = NoException
    /\ response = NoResponse
    /\ usfm_content = <<>>
    /\ chapters_content = <<>>
    /\ verses_pc = "idle"
    /\ verses_raised = "none"
    /\ registry = NoRegistry
    /\ registered = <<>>
    /\ listing = {}
    /\ processed = NotProcessed
    /\ unit_md = <<>>
    /\ unit_log = <<>>
    /\ t_resource = NoResource
    /\ t_pc = "content_set"
    /\ assembly_strategy_kind = "BOOK"
    /\ html_file = <<>>
    /\ parser_log = <<>>

\* A str is the sequence of its characters; Chars spells the codes in use.
Chars(s) ==
    CASE s = "en" -> <<"e", "n">>
      [] s = "fr" -> <<"f", "r">>
      [] s = "ulb" -> <<"u", "l", "b">>
      [] s = "tn" -> <<"t", "n">>
      [] s = "tq" -> <<"t", "q">>
      [] s = "gen" -> <<"g", "e", "n">>
      [] s = "zzz" -> <<"z", "z", "z">>
      [] s = "usfm" -> <<"u", "s", "f", "m">>
      [] s = "md" -> <<"m", "d">>
      [] s = "txt" -> <<"t", "x", "t">>
      [] s = "working" -> <<"w", "o", "r", "k", "i", "n", "g">>
      [] s = "en_ulb" -> <<"e", "n", "_", "u", "l", "b">>
      [] s = "en_tn" -> <<"e", "n", "_", "t", "n">>
      [] s = "en_tq" -> <<"e", "n", "_", "t", "q">>
      [] s = "fr_tn" -> <<"f", "r", "_", "t", "n">>

\* sep.join(parts) of a list of str
RECURSIVE StrJoin(_, _)
StrJoin(sep, parts) ==
    IF parts = <<>> THEN <<>>
    ELSE IF Len(parts) = 1 THEN Head(parts)
    ELSE Head(parts) \o sep \o StrJoin(sep, Tail(parts))

\* str.lower() on the characters in use
LowerChar(c) ==
    CASE c = "G" -> "g" [] c = "E" -> "e" [] c = "N" -> "n"
      [] c = "X" -> "x" [] c = "O" -> "o" [] OTHER -> c
Lower(str) == [k \in DOMAIN str |-> LowerChar(str[k])]

\* needle in hay
Contains(needle, hay) ==
    \E k \in 0..(Len(hay) - Len(needle)) :
        SubSeq(hay, k + 1, k + Len(needle)) = needle
EndsWith(str, suffix) ==
    /\ Len(suffix) <= Len(str)
    /\ SubSeq(str, Len(str) - Len(suffix) + 1, Len(str)) = suffix

\* a key returned as accumulated, without the [:-1]
KeepLast(str) == str

\* str[:-1]
StripLast(str) == SubSeq(str, 1, Len(str) - 1)

\* The for-loop of _initialize_document_request_key: each resource request
\* appends "-".join([lang_code, resource_type, resource_code]) + "_".
RECURSIVE AccumulateKey(_, _)
AccumulateKey(key, resource_requests) ==
    IF resource_requests = <<>> THEN key
    ELSE LET resource == Head(resource_requests)
         IN AccumulateKey(key \o StrJoin(<<"-">>, <<Chars(resource.lang_code),
                                                    Chars(resource.resource_type),
                                                    Chars(resource.resource_code)>>)
                              \o <<"_">>,
                          Tail(resource_requests))

_initialize_document_request_key(resource_requests) ==
    StripLast(AccumulateKey(<<>>, resource_requests))

\* The first resource request whose Resource cannot be constructed, or 0.
FirstMalformed(requests) ==
    IF \E k \in 1..Len(requests) : ResourceInitRaises(requests[k])
    THEN CHOOSE k \in 1..Len(requests) :
            /\ ResourceInitRaises(requests[k])
            /\ \A j \in 1..(k - 1) : ~ResourceInitRaises(requests[j])
    ELSE 0

\* DocumentGenerator.__init__: _initialize_resources builds one Resource per
\* resource request; the KeyError of a malformed one ends construction.
Construct ==
    /\ pc = "new"
    /\ IF FirstMalformed(document_request) # 0
       THEN /\ pc' = "rejected"
            /\ raised' = Exception("KeyError", FirstMalformed(document_request))
            /\ UNCHANGED <<resources, idx, document_request_key>>
       ELSE /\ resources' = [k \in 1..Len(document_request) |->
                                NewResource(document_request[k])]
            /\ document_request_key' =
                   _initialize_document_request_key(document_request)
            /\ pc' = "find_location"
            /\ idx' = 1
            /\ UNCHANGED raised
    /\ UNCHANGED <<sideVars, response, document_request, pdf_exists, found_resources,
                   unfound_resources, content, disk, effects>>

----------------------------------------------------------------------------
\* DocumentGenerator._fetch_resources

Effect(op, i, status) == [op |-> op, res |-> i, status |-> status]

\* The outcomes of resource_lookup's lookup: no URL, or a URL and its source.
LookupUrl(r, source) ==
    IF source = GIT
    THEN <<"git.door43.org", r.lang_code \o "_" \o r.resource_type>>
    ELSE IF source = ZIP
    THEN <<"cdn.door43.org", r.lang_code \o "_" \o r.resource_type \o ".zip">>
    ELSE <<"cdn.door43.org", r.resource_code \o ".usfm">>
LookupResults(r) ==
    {[url |-> NoUrl, source |-> ""]}
        \cup {[url |-> LookupUrl(r, source), source |-> source] : source \in {GIT, ZIP, FLAT}}

\* a test that takes every resource for found
IsFoundAlways(r) == TRUE

\* a list that grows at its front
PrependFound(found, i) == <<i>> \o found

\* self.found_resources.append(resource)
AppendFound(found, i) == Append(found, i)

\* Resource.is_found
is_found(r) == r.resource_url # NoUrl

\* The icontract postcondition of USFMResource.find_location; TResource has none.
FindLocationEnsure(r) == IsUSFM(r) => r.resource_url # NoUrl

\* a loop over self._resources in place of self.found_resources
ContentLoopAllResources(found) == [k \in 1..Len(resources) |-> k]

\* The resources _initialize_resource_content iterates over.
ContentLoopResources(found) == found

\* Where the for-loop of _fetch_resources goes after the resource at idx.
NextFetch(found) ==
    IF idx < Len(resources)
    THEN /\ pc' = "find_location"
         /\ idx' = idx + 1
    ELSE IF ContentLoopResources(found) = <<>>
    THEN /\ pc' = "generate_pdf"
         /\ idx' = 0
    ELSE /\ pc' = "initialize_assets"
         /\ idx' = 1

\* resource.find_location() and the is_found() branch of the loop body.
FindLocation ==
    /\ pc = "find_location"
    /\ \E dto \in LookupResults(resources[idx]) :
         LET r == [resources[idx] EXCEPT !.resource_url = dto.url,
                                         !.resource_source = dto.source]
         IN /\ resources' = [resources EXCEPT ![idx] = r]
            /\ effects' = Append(effects, Effect("lookup", idx, 0))
            /\ IF ~FindLocationEnsure(r)
               THEN /\ pc' = "raised"
                    /\ raised' = Exception("ViolationError", idx)
                    /\ UNCHANGED <<idx, found_resources, unfound_resources>>
               ELSE IF is_found(r)
               THEN /\ found_resources' = AppendFound(found_resources, idx)
                    /\ pc' = "get_files"
                    /\ UNCHANGED <<idx, unfound_resources, raised>>
               ELSE /\ unfound_resources' = Append(unfound_resources, idx)
                    /\ NextFetch(found_resources)
                    /\ UNCHANGED <<found_resources, raised>>
    /\ UNCHANGED <<sideVars, response, document_request, document_request_key, pdf_exists, content, disk>>

\* url.rpartition(os.path.sep)[2]
RPartitionLast(url) == url[Len(url)]

\* The exit statuses of "git clone": git refuses a destination that holds files.
CloneStatuses(resource_filepath, dsk) ==
    IF resource_filepath \in DOMAIN dsk /\ dsk[resource_filepath].populated
    THEN {128}
    ELSE {0, 128}

\* ResourceProvisioner._prepare_resource_directory: the directories after it.
PrepareResourceDirectory(dir, dsk) ==
    IF dir \in DOMAIN dsk THEN dsk ELSE (dir :> EmptyDir) @@ dsk

\* a provisioner that leaves resource_dir alone after the clone
DirAfterCloneUnchanged(dir, resource_filepath, status) == dir

\* The local root after "git clone" returned status: subprocess.call raises
\* nothing for a non-zero status, so the else-branch of the try always runs.
DirAfterClone(dir, resource_filepath, status) == resource_filepath

\* The files that a clone, download or extraction for resource r puts on disk.
Fetched(assets, r) ==
    [assets EXCEPT !.fetched_for = <<r.lang_code, r.resource_type>>]

\* ResourceProvisioner._is_git
_is_git(r) == r.resource_source = GIT

\* a provisioner that takes no download for an archive
IsZipNever(r) == FALSE

\* ResourceProvisioner._is_zip
_is_zip(r) == r.resource_source = ZIP

\* resource.get_files(): ResourceProvisioner.__call__, that is
\* _prepare_resource_directory followed by _acquire_resource.
GetFiles ==
    /\ pc = "get_files"
    /\ LET r == resources[idx]
           dir == r.resource_dir
           disk1 == PrepareResourceDirectory(dir, disk)
           eff1 == IF dir \in DOMAIN disk THEN effects
                   ELSE Append(effects, Effect("mkdir", idx, 0))
           resource_filepath == Append(dir, RPartitionLast(r.resource_url))
       IN \/ /\ _is_git(r)
             /\ \E status \in CloneStatuses(resource_filepath, disk1),
                   assets \in RemoteAssets :
                  /\ disk' = IF status = 0
                             THEN (resource_filepath :> Fetched(assets, r)) @@ disk1
                             ELSE disk1
                  /\ effects' = Append(eff1, Effect("clone", idx, status))
                  /\ resources' = [resources EXCEPT ![idx].resource_dir =
                                      DirAfterClone(dir, resource_filepath, status)]
                  /\ NextFetch(found_resources)
                  /\ UNCHANGED raised
          \/ /\ ~_is_git(r)
             /\ \E status \in {0, 1} :
                  \* url_utils.download_file raises: try/finally lets it through
                  IF status # 0
                  THEN /\ disk' = disk1
                       /\ effects' = Append(eff1, Effect("download", idx, status))
                       /\ pc' = "raised"
                       /\ raised' = Exception("FetchError", idx)
                       /\ UNCHANGED <<idx, resources>>
                  ELSE IF _is_zip(r)
                  THEN \E unzip_status \in {0, 1}, assets \in RemoteAssets :
                         /\ effects' = Append(Append(eff1, Effect("download", idx, 0)),
                                              Effect("unzip", idx, unzip_status))
                         /\ IF unzip_status # 0
                            THEN /\ disk' = disk1
                                 /\ pc' = "raised"
                                 /\ raised' = Exception("FetchError", idx)
                                 /\ UNCHANGED <<idx, resources>>
                            ELSE /\ disk' = (dir :> Fetched(assets, r)) @@ disk1
                                 /\ NextFetch(found_resources)
                                 /\ UNCHANGED <<resources, raised>>
                  ELSE \E assets \in RemoteAssets :
                         /\ effects' = Append(eff1, Effect("download", idx, 0))
                         /\ disk' = (dir :> Fetched(assets, r)) @@ disk1
                         /\ NextFetch(found_resources)
                         /\ UNCHANGED <<resources, raised>>
    /\ UNCHANGED <<sideVars, response, document_request, document_request_key, pdf_exists, found_resources,
                   unfound_resources, content>>

----------------------------------------------------------------------------
\* The link registry of a Resource instance

\* a registration that keeps the entry a locator already has
RegisterUnlessPresent(r, rc, anchor_id, title) ==
    [r EXCEPT !.resource_data = @ @@ (rc :> RegistryEntry(rc, anchor_id, title)),
              !.my_rcs = Append(@, rc)]

\* self._resource_data[rc] = {...}; self._my_rcs.append(rc)
Register(r, rc, anchor_id, title) ==
    [r EXCEPT !.resource_data = (rc :> RegistryEntry(rc, anchor_id, title)) @@ @,
              !.my_rcs = Append(@, rc)]

\* One outgoing locator found in the text of source_rc: the use is recorded,
\* and a locator that is not in the registry is a bad link.
ScanRcLink(r, rc, source_rc) ==
    [r EXCEPT !.rc_references =
                  (rc :> Append(IF rc \in DOMAIN @ THEN @[rc] ELSE <<>>, source_rc)) @@ @,
              !.bad_links = IF rc \in DOMAIN r.resource_data THEN @ ELSE @ \cup {rc}]

\* link_utils.get_resource_data_from_rc_links over the locators of a text.
RECURSIVE get_resource_data_from_rc_links(_, _, _)
get_resource_data_from_rc_links(r, rcs, source_rc) ==
    IF rcs = <<>> THEN r
    ELSE get_resource_data_from_rc_links(ScanRcLink(r, Head(rcs), source_rc),
                                         Tail(rcs), source_rc)

\* link_utils.replace_rc_links and transform_rc_links on one token: a locator
\* of the registry handed in becomes a hyperlink to its anchor, any other
\* locator stays as it is.
ReplaceRcLink(resource_data, token) ==
    IF token.kind = "rc" /\ token.rc \in DOMAIN resource_data
    THEN LinkToken(resource_data[token.rc])
    ELSE token
replace_rc_links(my_rcs, resource_data, text) ==
    [k \in 1..Len(text) |-> ReplaceRcLink(resource_data, text[k])]

\* str.lstrip("0") of a chapter directory or chunk file name
LStripZeros(name) == IF name = "01" THEN "1" ELSE name
\* link_utils.pad
pad(book_id, number) == IF number = "1" THEN "01" ELSE number

----------------------------------------------------------------------------
\* get_content of the Resource subclasses

\* book_intro_files and os.path.isfile(book_intro_files[0]): a content file
\* with "front/intro" in its lowered path that is a file on disk
HasBookIntro(r) ==
    /\ r.assets.book_intro
    /\ \E k \in DOMAIN r.content_files :
          Contains(<<"f", "r", "o", "n", "t", "/", "i", "n", "t", "r", "o">>,
                   Lower(r.content_files[k]))

\* a book introduction that is scanned before its locator is registered
InitializeTnBookIntroScanFirst(r) ==
    IF HasBookIntro(r)
    THEN LET book_intro_rc_link == TnBookIntroRc(r.lang_code, r.resource_code)
         IN Register(get_resource_data_from_rc_links(r, r.assets.intro_refs,
                                                     book_intro_rc_link),
                     book_intro_rc_link,
                     <<"tn", r.resource_code, "front", "intro">>, "book intro")
    ELSE r

\* TNResource._initialize_tn_book_intro: the resource after its side effects.
InitializeTnBookIntro(r) ==
    IF HasBookIntro(r)
    THEN LET book_intro_rc_link == TnBookIntroRc(r.lang_code, r.resource_code)
         IN get_resource_data_from_rc_links(
                Register(r, book_intro_rc_link,
                         <<"tn", r.resource_code, "front", "intro">>, "book intro"),
                r.assets.intro_refs, book_intro_rc_link)
    ELSE r

\* TNResource._initialize_tn_chapter_intro
InitializeTnChapterIntro(r, chapter) ==
    IF r.assets.chapter_intro
    THEN LET rc == TnChapterIntroRc(r.lang_code, r.resource_code,
                                    pad(r.resource_code, chapter))
         IN get_resource_data_from_rc_links(
                Register(r, rc,
                         <<"tn", r.resource_code, pad(r.resource_code, chapter), "intro">>,
                         "chapter intro"),
                <<>>, rc)
    ELSE r

\* TNResource._initialize_tn_links: the locators of the "Links:" section.
InitializeTnLinks(lang_code, book_id, book_has_intro, chapter_has_intro, chapter) ==
    (IF book_has_intro THEN <<TnBookIntroRc(lang_code, book_id)>> ELSE <<>>)
    \o (IF chapter_has_intro
        THEN <<TnChapterIntroRc(lang_code, book_id, pad(book_id, chapter))>>
        ELSE <<>>)
    \o <<TqChapterRc(lang_code, book_id, pad(book_id, chapter))>>

\* TNResource._get_tn_markdown: returns early, leaving _content unset, when
\* the book directory does not exist.
GetTnMarkdown(r) ==
    IF ~r.assets.book_dir THEN r
    ELSE LET chapter == LStripZeros(ChapterDir)
             r1 == InitializeTnBookIntro(r)
             r2 == InitializeTnChapterIntro(r1, chapter)
             tn_md == (IF HasBookIntro(r) THEN RcTokens(r.assets.intro_refs) ELSE <<>>)
                      \o RcTokens(r.assets.note_refs)
                      \o RcTokens(InitializeTnLinks(r.lang_code, r.resource_code,
                                                    HasBookIntro(r),
                                                    r.assets.chapter_intro, chapter))
         IN [r2 EXCEPT !.content = tn_md, !.format = "md"]

\* TQResource._get_tq_markdown, for a book directory that exists.
GetTqMarkdown(r) ==
    LET chapter == LStripZeros(ChapterDir)
        first_verse == LStripZeros(ChunkFile)
        book == r.resource_code
        verse_rc == TqVerseRc(r.lang_code, book, pad(book, chapter), pad(book, first_verse))
        r1 == Register(r, TqBookRc(r.lang_code, book), <<"tq", book>>, "book questions")
        r2 == Register(r1, TqChapterRc(r.lang_code, book, pad(book, chapter)),
                       <<"tq", book, pad(book, chapter)>>, "chapter questions")
        r3 == Register(r2, verse_rc,
                       <<"tq", book, pad(book, chapter), pad(book, first_verse)>>,
                       "verse questions")
        r4 == get_resource_data_from_rc_links(r3, r.assets.note_refs, verse_rc)
    IN [r4 EXCEPT !.content = <<TextToken("Translation Questions")>>
                              \o RcTokens(r.assets.note_refs),
                  !.format = "md"]

\* One transform of _content and the format _content had when it ran.
Step(op, format) == [op |-> op, format |-> format]

\* self._content = link_utils.replace_rc_links(...);
\* self._content = link_utils.transform_rc_links(self._content)
RewriteRcLinks(r) ==
    [r EXCEPT !.content = replace_rc_links(r.my_rcs, r.resource_data, r.content),
              !.transforms = @ \o <<Step("replace_rc_links", r.format),
                                    Step("transform_rc_links", r.format)>>]

\* TResource._convert_md2html: self._content = markdown.markdown(self._content)
ConvertMd2Html(r) ==
    [r EXCEPT !.format = "html",
              !.transforms = Append(@, Step("md2html", r.format))]

\* a transform that converts to HTML before it rewrites the links
TransformedContentConvertFirst(r) ==
    IF r.content = <<>> THEN r ELSE RewriteRcLinks(ConvertMd2Html(r))

\* TResource._transform_content: if self._content: rewrite the links, then
\* convert
TransformedContent(r) ==
    IF r.content = <<>> THEN r ELSE ConvertMd2Html(RewriteRcLinks(r))

----------------------------------------------------------------------------
\* DocumentGenerator._initialize_resource_content and _generate_pdf

\* Where the for-loop of _initialize_resource_content goes next.
NextContent ==
    IF idx < Len(ContentLoopResources(found_resources))
    THEN /\ pc' = "initialize_assets"
         /\ idx' = idx + 1
    ELSE /\ pc' = "generate_pdf"
         /\ idx' = 0

\* The path string of a directory and of a file below it.
PathStr(dir) == StrJoin(<<"/">>, [k \in DOMAIN dir |-> Chars(dir[k])])
FilePath(dir, file) ==
    PathStr(dir) \o <<"/">> \o StrJoin(<<"/">>, file.segs) \o <<".">> \o Chars(file.ext)

\* glob("{}**/*.<ext>".format(resource_dir)): without recursive=True the
\* pattern finds the files with the suffix that lie in the directory itself.
GlobFlat(dir, files, ext) ==
    LET Matches(file) == Len(file.segs) = 1 /\ file.ext = ext
        matching == SelectSeq(files, Matches)
    IN [k \in DOMAIN matching |-> FilePath(dir, matching[k])]

\* glob("{}/*{}/**/*.<ext>".format(resource_dir, resource_code)): the files
\* two levels below a directory whose name ends with the resource code.
GlobBook(dir, resource_code, files, ext) ==
    LET Matches(file) == /\ Len(file.segs) = 3
                         /\ EndsWith(file.segs[1], Chars(resource_code))
                         /\ file.ext = ext
        matching == SelectSeq(files, Matches)
    IN [k \in DOMAIN matching |-> FilePath(dir, matching[k])]

\* config.get_markdown_doc_file_names()
MarkdownDocFileNames ==
    {<<"r", "e", "a", "d", "m", "e">>, <<"l", "i", "c", "e", "n", "s", "e">>}

\* pathlib.Path(path).stem: the last name of the path without its suffix
RECURSIVE LastIndexOf(_, _, _)
LastIndexOf(c, str, k) ==
    IF k = 0 THEN 0 ELSE IF str[k] = c THEN k ELSE LastIndexOf(c, str, k - 1)
Stem(path) ==
    LET name == SubSeq(path, LastIndexOf("/", path, Len(path)) + 1, Len(path))
        dot == LastIndexOf(".", name, Len(name))
    IN IF dot <= 1 THEN name ELSE SubSeq(name, 1, dot - 1)
IsContentFile(path) == Lower(Stem(path)) \notin MarkdownDocFileNames

\* a filter that compares the resource code with the path as it is spelled
PathHoldsCodeAsSpelled(resource_code, path) ==
    Contains(Lower(Chars(resource_code)), path)

\* self._resource_code.lower() in str(content_file).lower()
PathHoldsCode(resource_code, path) ==
    Contains(Lower(Chars(resource_code)), Lower(path))

\* USFMResource.initialize_from_assets: self._content_files after it.
USFMContentFiles(r, assets) ==
    LET usfm_content_files == GlobFlat(r.resource_dir, assets.files, "usfm")
        txt_content_files == GlobFlat(r.resource_dir, assets.files, "txt")
        Keep(path) == PathHoldsCode(r.resource_code, path)
    IN IF usfm_content_files # <<>>
       THEN SelectSeq(usfm_content_files, Keep)
       ELSE IF txt_content_files # <<>>
       THEN SelectSeq(txt_content_files, Keep)
       ELSE r.content_files

\* TResource.initialize_from_assets: the second test is an "if", not an
\* "elif", so .txt content files replace the .md ones.
TContentFiles(r, assets) ==
    LET markdown_files == GlobBook(r.resource_dir, r.resource_code, assets.files, "md")
        markdown_content_files == SelectSeq(markdown_files, IsContentFile)
        txt_files == GlobBook(r.resource_dir, r.resource_code, assets.files, "txt")
        txt_content_files == SelectSeq(txt_files, IsContentFile)
        Keep(path) == PathHoldsCode(r.resource_code, path)
        after_md == IF markdown_content_files # <<>>
                    THEN SelectSeq(markdown_files, Keep)
                    ELSE r.content_files
    IN IF txt_content_files # <<>>
       THEN SelectSeq(txt_files, Keep)
       ELSE after_md

ContentFiles(r, assets) ==
    IF IsUSFM(r) THEN USFMContentFiles(r, assets) ELSE TContentFiles(r, assets)

\* What the globs of initialize_from_assets find under resource_dir.
DiscoveredAssets(r, dsk) ==
    IF r.resource_dir \in DOMAIN dsk THEN dsk[r.resource_dir] ELSE EmptyDir

\* resource.initialize_assets()
InitializeAssets ==
    /\ pc = "initialize_assets"
    /\ LET i == ContentLoopResources(found_resources)[idx]
       IN /\ resources' = [resources EXCEPT
                              ![i].assets = DiscoveredAssets(resources[i], disk),
                              ![i].content_files =
                                  ContentFiles(resources[i],
                                               DiscoveredAssets(resources[i], disk))]
          /\ effects' = Append(effects, Effect("discover", i, 0))
    /\ pc' = "get_content"
    /\ UNCHANGED <<sideVars, response, document_request, document_request_key, pdf_exists, idx, found_resources,
                   unfound_resources, content, disk, raised>>

\* resource.get_content() up to the call of _transform_content: the HTML of a
\* USFM resource, the Markdown and the registrations of the other kinds.
GetContent ==
    /\ pc = "get_content"
    /\ LET i == ContentLoopResources(found_resources)[idx]
           r == resources[i]
           class == ResourceClass(r.resource_type)
       IN \/ /\ class = "USFMResource"
             /\ resources' = [resources EXCEPT ![i].format = "html"]
             /\ effects' = Append(effects, Effect("parse", i, 0))
             /\ NextContent
             /\ UNCHANGED raised
          \/ /\ class = "TNResource"
             /\ resources' = [resources EXCEPT ![i] = GetTnMarkdown(r)]
             /\ effects' = Append(effects, Effect("register", i, 0))
             /\ pc' = "transform_content"
             /\ UNCHANGED <<idx, raised>>
          \/ /\ class = "TQResource"
             /\ r.assets.book_dir
             /\ resources' = [resources EXCEPT ![i] = GetTqMarkdown(r)]
             /\ effects' = Append(effects, Effect("register", i, 0))
             /\ pc' = "transform_content"
             /\ UNCHANGED <<idx, raised>>
          \/ \* os.listdir(tq_book_dir) of a directory that does not exist
             /\ class = "TQResource"
             /\ ~r.assets.book_dir
             /\ pc' = "raised"
             /\ raised' = Exception("FileNotFoundError", i)
             /\ UNCHANGED <<idx, resources, effects>>
    /\ UNCHANGED <<sideVars, response, document_request, document_request_key, pdf_exists, found_resources,
                   unfound_resources, content, disk>>

\* TResource._transform_content: reading the unset _content raises.
TransformContent ==
    /\ pc = "transform_content"
    /\ LET i == ContentLoopResources(found_resources)[idx]
           r == resources[i]
       IN IF r.format = "unset"
          THEN /\ pc' = "raised"
               /\ raised' = Exception("AttributeError", i)
               /\ UNCHANGED <<idx, resources, effects>>
          ELSE /\ resources' = [resources EXCEPT ![i] = TransformedContent(r)]
               /\ effects' = Append(effects, Effect("resolve", i, 0))
               /\ NextContent
               /\ UNCHANGED raised
    /\ UNCHANGED <<sideVars, response, document_request, document_request_key, pdf_exists, found_resources,
                   unfound_resources, content, disk>>

\* an assembly that walks the found resources from the last to the first
assemble_content_reversed(found, res) ==
    [k \in 1..Len(found) |->
        [res |-> found[Len(found) + 1 - k],
         content |-> res[found[Len(found) + 1 - k]].content]]

\* assemble_content_by_book: the content of the found resources, in order.
assemble_content_by_book(found, res) ==
    [k \in 1..Len(found) |-> [res |-> found[k], content |-> res[found[k]].content]]

\* The end of convert_html2pdf: the status of the pandoc call is dropped, and
\* inside a container the PDF is copied to /output.
CopyPdf(effs, IN_CONTAINER) ==
    IF IN_CONTAINER THEN Append(effs, Effect("copy", 0, 0)) ELSE effs

\* DocumentGenerator._generate_pdf: assemble_content and convert_html2pdf
\* unless the PDF is already there.
GeneratePdf ==
    /\ pc = "generate_pdf"
    /\ IF pdf_exists
       THEN UNCHANGED <<pdf_exists, content, effects>>
       ELSE \E status \in {0, 1}, IN_CONTAINER \in BOOLEAN :
              /\ content' = assemble_content_by_book(found_resources, resources)
              /\ effects' = CopyPdf(Append(Append(effects, Effect("assemble", 0, 0)),
                                           Effect("typeset", 0, status)),
                                    IN_CONTAINER)
              /\ pdf_exists' = (status = 0)
    /\ pc' = "done"
    /\ UNCHANGED <<sideVars, response, document_request, document_request_key, idx, resources, found_resources,
                   unfound_resources, disk, raised>>

\* DocumentGenerator.get_finished_document_filepath: the PDF named after the
\* document request key.
get_finished_document_filepath(key) ==
    Chars("working") \o <<"/">> \o key \o <<".", "p", "d", "f">>

\* document_endpoint after document_generator.run() has returned: the
\* FinishedDocumentDetails handed to the caller.
Respond ==
    /\ pc = "done"
    /\ response' = [finished_document_path |->
                       get_finished_document_filepath(document_request_key)]
    /\ pc' = "responded"
    /\ UNCHANGED <<sideVars, document_request, document_request_key, pdf_exists,
                   idx, resources, found_resources, unfound_resources, content,
                   disk, effects, raised>>

Next ==
    \/ Construct
    \/ FindLocation
    \/ GetFiles
    \/ InitializeAssets
    \/ GetContent
    \/ TransformContent
    \/ GeneratePdf
    \/ Respond

Spec == Init /\ [][Next]_vars

\* DocumentGenerator.__init__ and _fetch_resources alone: the run up to the
\* return of _fetch_resources.
FetchNext ==
    \/ Construct
    \/ FindLocation
    \/ GetFiles

FetchSpec == Init /\ [][FetchNext]_vars

----------------------------------------------------------------------------
\* USFMResource._initialize_verses_html
\*
\* An HTML document is the sequence of its elements in document order; size
\* is the number of descendants of the element, which follow it.  str(tag) of
\* an element is the element with its descendants, and a string of HTML is
\* the sequence of the elements it spells.

El(tag, chapter, verse, size) ==
    [tag |-> tag, chapter |-> chapter, verse |-> verse, size |-> size]

\* <span class="v-num" id="...-ch-c-v-v"><sup><b>v</b></sup></span> and the
\* text of the verse
VerseElements(c, v) ==
    <<El("span", c, v, 3), El("sup", c, v, 2), El("b", c, v, 1),
      El("num", c, v, 0), El("text", c, v, 0)>>

Min(S) == CHOOSE x \in S : \A y \in S : x <= y

RECURSIVE VersesElements(_, _)
VersesElements(c, verses) ==
    IF verses = {} THEN <<>>
    ELSE VerseElements(c, Min(verses)) \o VersesElements(c, verses \ {Min(verses)})

\* <h2 class="c-num">Chapter c</h2> and the paragraph that holds the verses
ChapterElements(c, verses) ==
    <<El("h2", c, 0, 1), El("h2text", c, 0, 0),
      El("p", c, 0, 5 * Cardinality(verses))>> \o VersesElements(c, verses)

RECURSIVE BookElements(_, _)
BookElements(chapters, c) ==
    IF c > Len(chapters) THEN <<>>
    ELSE ChapterElements(c, chapters[c]) \o BookElements(chapters, c + 1)

\* The HTML of a book with chapters 1..n, each with a set of verse numbers;
\* an HTML of front matter without any chapter; the empty string.
FrontMatterOnly == <<El("text", 0, 0, 0)>>
UsfmHtmlDocuments ==
    {<<>>, FrontMatterOnly}
        \cup {BookElements(chapters, 1) :
                chapters \in UNION {[1..n -> SUBSET (1..MaxVerse)] : n \in 1..MaxChapters}}

\* parser.find(...): the first element that matches, 0 for None
FindElement(doc, tag, chapter, verse) ==
    LET hits == {k \in DOMAIN doc : /\ doc[k].tag = tag
                                    /\ doc[k].chapter = chapter
                                    /\ doc[k].verse = verse}
    IN IF hits = {} THEN 0 ELSE Min(hits)

\* html_parsing_utils.tag_elements_between(start_tag, end_tag): the elements
\* from start_tag on in document order, up to end_tag or to the end.
tag_elements_between(doc, start_tag, end_tag) ==
    IF start_tag = 0 THEN <<>>
    ELSE LET last == IF end_tag = 0 THEN Len(doc) ELSE end_tag - 1
         IN [j \in 1..(last - start_tag + 1) |-> start_tag + j - 1]

\* [str(tag) for tag in tags]
Strs(doc, tags) == [j \in DOMAIN tags |-> SubSeq(doc, tags[j], tags[j] + doc[tags[j]].size)]

\* "".join(strs), and the elements bs4 parses from it
RECURSIVE Join(_)
Join(strs) == IF strs = <<>> THEN <<>> ELSE Head(strs) \o Join(Tail(strs))

\* del verse_content[1:4]
DelSlice(list) == SubSeq(list, 1, 1) \o SubSeq(list, 5, Len(list))

\* a chapter that ends where it starts
SameChapterNumber(chapter_num) == chapter_num

\* The number in the heading that ends chapter chapter_num.
NextChapterNumber(chapter_num) == chapter_num + 1

\* a slice stored as it was cut
KeepSlice(str) == str

\* '<span class="v-num"' + str.split('<span class="v-num"')[1]
SpanPositions(str) == {k \in DOMAIN str : str[k].tag = "span"}
TruncateToOwnMarker(str) ==
    LET first == Min(SpanPositions(str))
        later == {k \in SpanPositions(str) : k > first}
    IN SubSeq(str, first, IF later = {} THEN Len(str) ELSE Min(later) - 1)

\* The joined slice of verse verse_num of chapter chapter_num.
VerseContentStr(chapter_verses_parser, chapter_num, verse_num) ==
    LET lower == FindElement(chapter_verses_parser, "span", chapter_num, verse_num)
        upper == FindElement(chapter_verses_parser, "span", chapter_num, verse_num + 1)
        verse_content == Strs(chapter_verses_parser,
                              tag_elements_between(chapter_verses_parser, lower, upper))
    IN Join(DelSlice(verse_content))

\* The HTML of chapter chapter_num, parsed again.
ChapterVersesParser(parser, chapter_num) ==
    Join(Strs(parser,
              tag_elements_between(parser,
                  FindElement(parser, "h2", chapter_num, 0),
                  FindElement(parser, "h2", NextChapterNumber(chapter_num), 0))))

\* The verse numbers of the v-num spans of a parsed chapter.
VerseNums(chapter_verses_parser) ==
    {chapter_verses_parser[k].verse : k \in SpanPositions(chapter_verses_parser)}

\* split(...)[1] raises IndexError for a slice without a v-num span.
ChapterRaises(parser, chapter_num) ==
    LET chapter_verses_parser == ChapterVersesParser(parser, chapter_num)
    IN \E verse_num \in VerseNums(chapter_verses_parser) :
          SpanPositions(VerseContentStr(chapter_verses_parser, chapter_num, verse_num)) = {}

\* chapter_verses of one chapter: verse number -> stored fragment
ChapterVerses(parser, chapter_num) ==
    LET chapter_verses_parser == ChapterVersesParser(parser, chapter_num)
    IN [verse_num \in VerseNums(chapter_verses_parser) |->
           TruncateToOwnMarker(
               VerseContentStr(chapter_verses_parser, chapter_num, verse_num))]

\* The chapter numbers of the h2.c-num headings, in document order.
ChapterBreaks(parser) ==
    LET IsBreak(e) == e.tag = "h2"
        breaks == SelectSeq(parser, IsBreak)
    IN [k \in DOMAIN breaks |-> breaks[k].chapter]

\* The chapters stored before the loop ends or raises.
ChaptersStored(parser) ==
    LET chapter_breaks == ChapterBreaks(parser)
        failing == {k \in DOMAIN chapter_breaks : ChapterRaises(parser, chapter_breaks[k])}
        stop == IF failing = {} THEN Len(chapter_breaks) ELSE Min(failing) - 1
    IN {chapter_breaks[k] : k \in 1..stop}

\* The outcome of _initialize_verses_html: the exception raised, or "none".
VersesHtmlRaises(parser) ==
    IF parser = <<>> THEN "ViolationError"             \* require(self._content)
    ELSE IF ChapterBreaks(parser) = <<>> THEN "IndexError"   \* chapter_breaks[0]
    ELSE IF \E k \in DOMAIN ChapterBreaks(parser) :
               ChapterRaises(parser, ChapterBreaks(parser)[k])
    THEN "IndexError"
    ELSE "none"

VerseInit ==
    /\ usfm_content \in UsfmHtmlDocuments
    /\ chapters_content = <<>>
    /\ verses_pc = "ready"
    /\ verses_raised = "none"
    /\ document_request = <<>>
    /\ document_request_key = <<>>
    /\ pdf_exists = FALSE
    /\ pc = "get_content"
    /\ idx = 0
    /\ resources = <<>>
    /\ found_resources = <<>>
    /\ unfound_resources = <<>>
    /\ content = <<>>
    /\ disk = <<>>
    /\ effects = <<>>
    /\ raised = NoException
    /\ response = NoResponse
    /\ registry = NoRegistry
    /\ registered = <<>>
    /\ listing = {}
    /\ processed = NotProcessed
    /\ unit_md = <<>>
    /\ unit_log = <<>>
    /\ t_resource = NoResource
    /\ t_pc = "content_set"
    /\ assembly_strategy_kind = "BOOK"
    /\ html_file = <<>>
    /\ parser_log = <<>>

\* One call of _initialize_verses_html on usfm_content.
InitializeVersesHtml ==
    /\ verses_pc = "ready"
    /\ verses_raised' = VersesHtmlRaises(usfm_content)
    /\ verses_pc' = IF VersesHtmlRaises(usfm_content) = "none" THEN "done" ELSE "raised"
    /\ chapters_content' =
          IF VersesHtmlRaises(usfm_content) = "ViolationError" THEN chapters_content
          ELSE [chapter_num \in ChaptersStored(usfm_content) |->
                   [chapter_verses |-> ChapterVerses(usfm_content, chapter_num)]]
    /\ UNCHANGED <<usfm_content, pipelineVars, registerVars, orderVars, unitVars, transformVars, scriptureVars>>

VerseNext == InitializeVersesHtml

VerseSpec == VerseInit /\ [][VerseNext]_vars

----------------------------------------------------------------------------
\* Registrations on the registry of one Resource
\*
\* The pipeline registers each locator of a resource once; RegisterSpec makes
\* the assignment self._resource_data[rc] = {...} again and again, with the
\* same and with other data.

\* Most registrations made on the registry.
MaxRegistrations == 3

RegisteredLocators == {TnBookIntroRc("en", "gen"), TqBookRc("en", "gen")}
AnchorIds == {<<"tn", "gen", "front", "intro">>, <<"tq", "gen">>}
Titles == {"Introduction", "Questions"}

\* The state in which no exception is pending and the pipeline does nothing.
PipelineAtRest ==
    /\ document_request = <<>>
    /\ document_request_key = <<>>
    /\ pdf_exists = FALSE
    /\ pc = "get_content"
    /\ idx = 0
    /\ resources = <<>>
    /\ found_resources = <<>>
    /\ unfound_resources = <<>>
    /\ content = <<>>
    /\ disk = <<>>
    /\ effects = <<>>
    /\ raised = NoException
    /\ response = NoResponse

VerseAtRest ==
    /\ usfm_content = <<>>
    /\ chapters_content = <<>>
    /\ verses_pc = "idle"
    /\ verses_raised = "none"

RegisterAtRest ==
    /\ registry = NoRegistry
    /\ registered = <<>>

OrderAtRest ==
    /\ listing = {}
    /\ processed = NotProcessed

UnitAtRest ==
    /\ unit_md = <<>>
    /\ unit_log = <<>>

TransformAtRest ==
    /\ t_resource = NoResource
    /\ t_pc = "content_set"

ScriptureAtRest ==
    /\ assembly_strategy_kind = "BOOK"
    /\ html_file = <<>>
    /\ parser_log = <<>>

RegisterInit ==
    /\ registry = NoRegistry
    /\ registered = <<>>
    /\ PipelineAtRest
    /\ VerseAtRest
    /\ OrderAtRest
    /\ UnitAtRest
    /\ TransformAtRest
    /\ ScriptureAtRest

\* self._resource_data[rc] = {"rc", "id", "link", "title"};
\* self._my_rcs.append(rc)
RegisterLocator ==
    /\ Len(registered) < MaxRegistrations
    /\ \E rc \in RegisteredLocators, anchor_id \in AnchorIds, title \in Titles :
         /\ registry' = Register(registry, rc, anchor_id, title)
         /\ registered' = Append(registered,
                                 [rc |-> rc, id |-> anchor_id, title |-> title])
    /\ UNCHANGED <<pipelineVars, verseVars, orderVars, unitVars, transformVars, scriptureVars>>

RegisterNext == RegisterLocator

RegisterSpec == RegisterInit /\ [][RegisterNext]_vars

----------------------------------------------------------------------------
\* The order of the chapter directories of a book
\*
\* A directory name is the sequence of its decimal digits.

\* Most chapter directories of a book, longest name, largest digit explored.
MaxChapterDirs == 2
MaxNameLen == 2
MaxDigit == 2

DirNames == UNION {[1..n -> 0..MaxDigit] : n \in 1..MaxNameLen}
Listings == {names \in SUBSET DirNames : Cardinality(names) <= MaxChapterDirs}

\* a < b for two str, the order sorted() uses: character by character, a
\* proper prefix first
RECURSIVE StrLess(_, _)
StrLess(a, b) ==
    IF b = <<>> THEN FALSE
    ELSE IF a = <<>> THEN TRUE
    ELSE IF Head(a) # Head(b) THEN Head(a) < Head(b)
    ELSE StrLess(Tail(a), Tail(b))

\* int(digits)
RECURSIVE IntOf(_)
IntOf(digits) ==
    IF digits = <<>> THEN 0
    ELSE 10 * IntOf(SubSeq(digits, 1, Len(digits) - 1)) + digits[Len(digits)]

\* sorted(os.listdir(book_dir)): the names in the order of str
RECURSIVE Sorted(_)
Sorted(names) ==
    IF names = {} THEN <<>>
    ELSE LET first == CHOOSE a \in names : \A b \in names : b # a => StrLess(a, b)
         IN <<first>> \o Sorted(names \ {first})

\* chapter.lstrip("0")
RECURSIVE LStrip0(_)
LStrip0(digits) ==
    IF digits # <<>> /\ Head(digits) = 0 THEN LStrip0(Tail(digits)) ELSE digits

\* re.match(r"^\d+$", chapter)
IsNumber(chapter) == chapter # <<>>

\* for chapter in sorted(os.listdir(book_dir)): chapter = chapter.lstrip("0");
\* the chapters that pass the test of the loop body, in the order of the loop
ChaptersInLoopOrder(names) ==
    LET stripped == [k \in DOMAIN Sorted(names) |-> LStrip0(Sorted(names)[k])]
    IN SelectSeq(stripped, IsNumber)

OrderInit ==
    /\ listing \in Listings
    /\ processed = NotProcessed
    /\ PipelineAtRest
    /\ VerseAtRest
    /\ RegisterAtRest
    /\ UnitAtRest
    /\ TransformAtRest
    /\ ScriptureAtRest

\* The for-loop over the chapter directories of _get_tn_markdown and
\* _get_tq_markdown.
ProcessChapters ==
    /\ processed = NotProcessed
    /\ processed' = [done |-> TRUE, chapters |-> ChaptersInLoopOrder(listing)]
    /\ UNCHANGED <<listing, pipelineVars, verseVars, registerVars, unitVars, transformVars, scriptureVars>>

OrderNext == ProcessChapters

OrderSpec == OrderInit /\ [][OrderNext]_vars

----------------------------------------------------------------------------
\* The transforms of the Markdown of a chapter introduction
\*
\* A Markdown text is the sequence of its lines. A line is a heading of some
\* level, a line of text (level 0) or the line of a hidden anchor tag.

\* Most lines of a chapter introduction.
MaxLines == 3
\* The heading levels of the lines explored; 0 is a line of text.
HeadingLevels == {0, 1, 2, 4}

Line(level) == [level |-> level, id_tag |-> FALSE, fixed |-> FALSE]
\* '<a id="tn-{}-{}-intro"/>'
IdTagLine == [level |-> 0, id_tag |-> TRUE, fixed |-> FALSE]
IsHeading(line) == line.level > 0

Markdowns == UNION {[1..n -> {Line(level) : level \in HeadingLevels}] : n \in 0..MaxLines}

\* link_utils.fix_tn_links: the links of the lines of text are rewritten
fix_tn_links(md) ==
    [k \in DOMAIN md |-> IF IsHeading(md[k]) THEN md[k] ELSE [md[k] EXCEPT !.fixed = TRUE]]

\* markdown_utils.increase_headers: every heading gets one "#" more
increase_headers(md) ==
    [k \in DOMAIN md |-> IF IsHeading(md[k]) THEN [md[k] EXCEPT !.level = @ + 1] ELSE md[k]]

\* markdown_utils.decrease_headers(md, minimum_header, decrease): the headings
\* of minimum_header or more "#" lose decrease of them
decrease_headers(md, minimum_header, decrease) ==
    [k \in DOMAIN md |->
        IF md[k].level >= minimum_header THEN [md[k] EXCEPT !.level = @ - decrease]
        ELSE md[k]]

\* the first line "# ([^\n]+)\n" finds: the pattern is not anchored to the
\* start of a line, so it finds the first heading of any level
FirstHeading(md) ==
    IF \E k \in DOMAIN md : IsHeading(md[k])
    THEN Min({k \in DOMAIN md : IsHeading(md[k])})
    ELSE 0

\* re.compile(r"# ([^\n]+)\n").sub(r"# \1\n{}\n".format(id_tag), md, 1)
SubIdTag(md) ==
    IF FirstHeading(md) = 0 THEN md
    ELSE SubSeq(md, 1, FirstHeading(md)) \o <<IdTagLine>>
         \o SubSeq(md, FirstHeading(md) + 1, Len(md))

UnitInit ==
    /\ unit_md \in Markdowns
    /\ unit_log = <<>>
    /\ PipelineAtRest
    /\ VerseAtRest
    /\ RegisterAtRest
    /\ OrderAtRest
    /\ TransformAtRest
    /\ ScriptureAtRest

\* TNResource._initialize_tn_chapter_intro on the text read from intro.md.
TransformChapterIntro ==
    /\ unit_log = <<>>
    /\ unit_md' = SubIdTag(decrease_headers(increase_headers(fix_tn_links(unit_md)), 5, 2))
    /\ unit_log' = <<"fix_tn_links", "increase_headers", "decrease_headers", "id_tag">>
    /\ UNCHANGED <<pipelineVars, verseVars, registerVars, orderVars, transformVars, scriptureVars>>

UnitNext == TransformChapterIntro

UnitSpec == UnitInit /\ [][UnitNext]_vars

----------------------------------------------------------------------------
\* _transform_content on a resource whose _content is set
\*
\* In a run of the pipeline the Markdown of a TN or TQ resource always holds
\* a heading or a link; TransformSpec hands _transform_content every text,
\* the empty one included.

\* Most tokens of a text.
MaxTokens == 3

ContentTokens ==
    {TextToken("Links:"), RcToken(TnBookIntroRc("en", "gen")), RcToken(TwGraceRc)}
Contents == UNION {[1..n -> ContentTokens] : n \in 0..MaxTokens}
TransformRequests ==
    {rr \in ResourceRequests :
        /\ rr.lang_code = "en"
        /\ ResourceClass(rr.resource_type) \in {"TNResource", "TQResource"}
        /\ rr.resource_code \in BOOK_NAMES}

\* the resource after a get_content that registered the locators rcs and
\* set _content to text
WithContent(rr, rcs, text) ==
    [NewResource(rr) EXCEPT
        !.resource_data = [rc \in rcs |-> RegistryEntry(rc, <<"tn", "gen", "front", "intro">>,
                                                       "book intro")],
        !.my_rcs = IF rcs = {} THEN <<>> ELSE <<TnBookIntroRc("en", "gen")>>,
        !.content = text,
        !.format = "md"]

TransformInit ==
    /\ t_resource \in {WithContent(rr, rcs, text) :
                          rr \in TransformRequests,
                          rcs \in SUBSET {TnBookIntroRc("en", "gen")},
                          text \in Contents}
    /\ t_pc = "content_set"
    /\ PipelineAtRest
    /\ VerseAtRest
    /\ RegisterAtRest
    /\ OrderAtRest
    /\ UnitAtRest
    /\ ScriptureAtRest

\* TResource._transform_content
TransformSetContent ==
    /\ t_pc = "content_set"
    /\ t_resource' = TransformedContent(t_resource)
    /\ t_pc' = "transformed"
    /\ UNCHANGED <<pipelineVars, verseVars, registerVars, orderVars, unitVars, scriptureVars>>

TransformNext == TransformSetContent

TransformSpec == TransformInit /\ [][TransformNext]_vars

----------------------------------------------------------------------------
\* USFMResource.get_content
\*
\* assembly_strategy_factory holds the BOOK strategy alone, so a pipeline run
\* constructs its resources with that kind; ScriptureSpec constructs the
\* USFMResource with every kind.

AssemblyStrategyKinds == {"BOOK", "verse", "verse2"}

\* a test that takes every kind for a verse-level one
VerseLevelAlways(kind) == TRUE

\* self._assembly_strategy_kind in {AssemblyStrategyEnum.verse,
\*                                  AssemblyStrategyEnum.verse2}
VerseLevel(kind) == kind \in {"verse", "verse2"}

ScriptureInit ==
    /\ assembly_strategy_kind \in AssemblyStrategyKinds
    /\ html_file \in UsfmHtmlDocuments
    /\ parser_log = <<>>
    /\ PipelineAtRest
    /\ VerseAtRest
    /\ RegisterAtRest
    /\ OrderAtRest
    /\ UnitAtRest
    /\ TransformAtRest

\* USFMResource.get_content: UsfmTransform.buildSingleHtmlFromFiles writes
\* the HTML file, _content is read from it, and a verse-level kind goes on to
\* _initialize_verses_html.
UsfmGetContent ==
    /\ parser_log = <<>>
    /\ usfm_content' = html_file
    /\ IF VerseLevel(assembly_strategy_kind)
       THEN /\ parser_log' = <<"PARSE_TO_HTML", "SPLIT_INTO_VERSES">>
            /\ verses_raised' = VersesHtmlRaises(html_file)
            /\ verses_pc' = IF VersesHtmlRaises(html_file) = "none" THEN "done" ELSE "raised"
            /\ chapters_content' =
                  IF VersesHtmlRaises(html_file) = "ViolationError" THEN chapters_content
                  ELSE [chapter_num \in ChaptersStored(html_file) |->
                           [chapter_verses |-> ChapterVerses(html_file, chapter_num)]]
       ELSE /\ parser_log' = <<"PARSE_TO_HTML">>
            /\ verses_pc' = "done"
            /\ UNCHANGED <<verses_raised, chapters_content>>
    /\ UNCHANGED <<assembly_strategy_kind, html_file, pipelineVars, registerVars,
                   orderVars, unitVars, transformVars>>

ScriptureNext == UsfmGetContent

ScriptureSpec == ScriptureInit /\ [][ScriptureNext]_vars

----------------------------------------------------------------------------
\* Vocabulary of the properties

Positions(op, i) == {k \in DOMAIN effects : effects[k].op = op /\ effects[k].res = i}
Happened(op, i) == Positions(op, i) # {}
InSeq(x, seq) == \E k \in DOMAIN seq : seq[k] = x
Registers(r) == ResourceClass(r.resource_type) \in {"TNResource", "TQResource"}

\* the lookup of resource i returned no URL
NotFound(i) == Happened("lookup", i) /\ resources[i].resource_url = NoUrl

\* the clone, download or extraction of resource i failed
FetchFailed(i) ==
    \E k \in DOMAIN effects :
        /\ effects[k].res = i
        /\ effects[k].op \in {"clone", "download", "unzip"}
        /\ effects[k].status # 0

\* get_files of resource i has returned
GetFilesCompleted(i, before) ==
    \E k \in 1..(before - 1) :
        /\ effects[k].res = i
        /\ \/ effects[k].op = "clone"
           \/ effects[k].op = "unzip" /\ effects[k].status = 0
           \/ /\ effects[k].op = "download" /\ effects[k].status = 0
              /\ resources[i].resource_source = FLAT

\* the PDF was there before the run began: no typesetter call made it
PdfExistedAtStart == pdf_exists /\ \A k \in DOMAIN effects : effects[k].op # "typeset"

\* the locators registered by any resource of the run
RegisteredInRun == UNION {DOMAIN resources[i].resource_data : i \in DOMAIN resources}
BadLinksOfRun == UNION {resources[i].bad_links : i \in DOMAIN resources}

\* the for-loop of _fetch_resources has gone through every resource
FetchFinished ==
    /\ resources # <<>>
    /\ pc \notin {"new", "rejected", "find_location", "get_files"}
    /\ ~(pc = "raised" /\ raised.kind \in {"ViolationError", "FetchError"})
    /\ \A i \in DOMAIN resources : Happened("lookup", i)

----------------------------------------------------------------------------
\* C1: a resource whose lookup yields no URL never makes the run raise; it is in
\* unfound_resources and the assembled document holds none of its content,
\* whatever the kind of the resource.
C1_PartialFailureTolerance ==
    \A i \in DOMAIN resources :
        NotFound(i) =>
            /\ ~(pc = "raised" /\ raised.res = i)
            /\ InSeq(i, unfound_resources)
            /\ \A k \in DOMAIN content : content[k].res # i

\* C2: a run that starts with the output PDF present performs no lookup, fetch,
\* discovery, parsing, rendering, assembly or typesetter call.
C2_IdempotentMemoization ==
    PdfExistedAtStart => effects = <<>>

\* C3: no resource's text is resolved before every found resource that registers
\* locators has registered them.
C3_RegistrationBeforeResolution ==
    \A k \in DOMAIN effects :
        effects[k].op = "resolve" =>
            \A b \in DOMAIN resources :
                (InSeq(b, found_resources) /\ Registers(resources[b])) =>
                    \E m \in 1..(k - 1) : effects[m] = Effect("register", b, 0)

\* C4: a locator registered while processing one resource is in the registry
\* that every other resource of the request resolves its text against.
C4_SharedRegistry ==
    \A a, b \in DOMAIN resources :
        (\E m \in Positions("register", a), k \in Positions("resolve", b) : m < k) =>
            DOMAIN resources[a].resource_data \subseteq DOMAIN resources[b].resource_data

\* C5: a locator registered before a text is resolved does not survive as a raw
\* locator in the resolved text: its occurrence has become a hyperlink.
C5_RegisteredLocatorsResolve ==
    \A a, b \in DOMAIN resources :
        (\E m \in Positions("register", a), k \in Positions("resolve", b) : m < k) =>
            \A t \in DOMAIN resources[b].content :
                resources[b].content[t].kind = "rc" =>
                    resources[b].content[t].rc \notin DOMAIN resources[a].resource_data

\* C6: at the end of the run every raw locator left in a resolved text that no
\* resource registered is in the bad-link set.
C6_UnresolvedAreBadLinks ==
    pc = "done" =>
        \A b \in DOMAIN resources :
            Happened("resolve", b) =>
                \A t \in DOMAIN resources[b].content :
                    (/\ resources[b].content[t].kind = "rc"
                     /\ resources[b].content[t].rc \notin RegisteredInRun)
                        => resources[b].content[t].rc \in BadLinksOfRun

C8_MalformedAbortsBeforeFetching ==
    (\E k \in DOMAIN document_request :
        document_request[k].resource_code \notin BOOK_NAMES) =>
            /\ pc \in {"new", "rejected"}
            /\ pc = "rejected" => raised.kind = "KeyError"
            /\ resources = <<>>
            /\ effects = <<>>
            /\ disk = <<>>

\* a rejected request whose malformed resource is listed after a well-formed one
C8_Witness ==
    /\ pc = "rejected"
    /\ raised.res > 1
    /\ document_request[1].resource_code \in BOOK_NAMES

\* C9: a resource whose fetch failed does not end the run and is not among
\* the found resources.
C9_FetchFailureIsResourceLevel ==
    \A i \in DOMAIN resources :
        FetchFailed(i) =>
            /\ ~(pc = "raised" /\ raised.res = i)
            /\ ~InSeq(i, found_resources)

\* C10: every failed clone, download or extraction makes the provisioner fail
\* with a fetch error; a clone that exited non-zero is never taken as done.
C10_ProvisioningReportsFailure ==
    \A k \in DOMAIN effects :
        (effects[k].op \in {"clone", "download", "unzip"} /\ effects[k].status # 0) =>
            raised = Exception("FetchError", effects[k].res)

\* C11: once get_files has cloned a git resource, its resource_dir is the clone
\* target <working_dir>/<lang>_<type>/<last segment of the URL>; the resource_dir
\* of a resource provisioned by download or extraction is the one set at
\* construction; discovery reads the directory resource_dir names.
C11_GitRedirection ==
    \A i \in DOMAIN resources :
        LET r == resources[i]
            initial == InitialResourceDir(r.lang_code, r.resource_type)
        IN /\ Happened("clone", i) =>
                  r.resource_dir = Append(initial, RPartitionLast(r.resource_url))
           /\ ~Happened("clone", i) => r.resource_dir = initial
           /\ Happened("discover", i) =>
                  r.assets = IF r.resource_dir \in DOMAIN disk
                             THEN disk[r.resource_dir]
                             ELSE EmptyDir

\* a cloned resource whose files were discovered in the clone target, next to
\* a downloaded one whose files were discovered in its initial directory
C11_Witness ==
    \E i, j \in DOMAIN resources :
        /\ Happened("clone", i) /\ Happened("discover", i)
        /\ resources[i].assets.populated
        /\ Happened("download", j) /\ Happened("discover", j)
        /\ resources[j].assets.populated

\* C12: two resources of different language or type never have the same
\* resource directory, nor one inside the other's; the files a provisioning
\* puts on disk lie under the directory of the resource they were fetched for;
\* the files discovered for a resource were fetched for its language and type.
IsPrefix(p, q) == Len(p) <= Len(q) /\ SubSeq(q, 1, Len(p)) = p
Namespace(r) == <<r.lang_code, r.resource_type>>
C12_DirectoryIsolation ==
    /\ \A i, j \in DOMAIN resources :
           Namespace(resources[i]) # Namespace(resources[j]) =>
               /\ ~IsPrefix(resources[i].resource_dir, resources[j].resource_dir)
               /\ resources[i].assets.populated /\ resources[j].assets.populated =>
                      resources[i].assets.fetched_for # resources[j].assets.fetched_for
    /\ \A d \in DOMAIN disk :
           disk[d].populated =>
               IsPrefix(InitialResourceDir(disk[d].fetched_for[1], disk[d].fetched_for[2]), d)
    /\ \A i \in DOMAIN resources :
           resources[i].assets.populated =>
               resources[i].assets.fetched_for = Namespace(resources[i])

\* (en, tn, gen) and (fr, tn, gen) of one request, both provisioned and discovered
C12_Witness ==
    \E i, j \in DOMAIN resources :
        /\ resources[i].lang_code = "en" /\ resources[j].lang_code = "fr"
        /\ resources[i].resource_type = resources[j].resource_type
        /\ resources[i].resource_code = resources[j].resource_code
        /\ Happened("discover", i) /\ resources[i].assets.populated
        /\ Happened("discover", j) /\ resources[j].assets.populated

\* C13: the document request key is each triple written lang-type-code, the
\* triples separated by "_" in request order, with no separator after the
\* last; the same request always has this key, and every request that lists
\* the same triples in another order has a different key.
TripleKey(t) ==
    Chars(t.lang_code) \o <<"-">> \o Chars(t.resource_type) \o <<"-">>
        \o Chars(t.resource_code)
RECURSIVE SeparatedTriples(_)
SeparatedTriples(requests) ==
    IF Len(requests) = 1 THEN TripleKey(requests[1])
    ELSE TripleKey(requests[1]) \o <<"_">> \o SeparatedTriples(Tail(requests))
Reorderings(requests) ==
    {[k \in DOMAIN requests |-> requests[p[k]]] :
        p \in {q \in [DOMAIN requests -> DOMAIN requests] :
                  \A a, b \in DOMAIN requests : a # b => q[a] # q[b]}}
KeyIsSet == pc \notin {"new", "rejected"}
\* the generator has just been constructed; the key is not assigned again
JustConstructed == pc = "find_location" /\ effects = <<>>
C13_KeyDeterminedByOrder ==
    KeyIsSet =>
        /\ document_request_key = SeparatedTriples(document_request)
        /\ JustConstructed =>
               \A other \in Reorderings(document_request) :
                   (_initialize_document_request_key(other) = document_request_key)
                       <=> (other = document_request)

\* a generator just constructed for a request that lists two different triples
C13_Witness ==
    /\ JustConstructed
    /\ Len(document_request) >= 2
    /\ document_request[1] # document_request[2]

\* C14: the assembled body holds the content of each found resource exactly
\* once, in the order of the resource requests, and nothing else; a resource
\* that was not found is in unfound_resources and not in the body.
Assembled == \E k \in DOMAIN effects : effects[k].op = "assemble"
C14_AssemblyInRequestOrder ==
    Assembled =>
        /\ \A i \in DOMAIN resources :
               IF is_found(resources[i])
               THEN Cardinality({k \in DOMAIN content : content[k].res = i}) = 1
               ELSE /\ \A k \in DOMAIN content : content[k].res # i
                    /\ InSeq(i, unfound_resources)
        /\ \A k \in DOMAIN content :
               /\ content[k].res \in DOMAIN resources
               /\ content[k].content = resources[content[k].res].content
        /\ \A k, m \in DOMAIN content : k < m => content[k].res < content[m].res

\* a body assembled from two found resources with different content
C14_Witness ==
    /\ Assembled
    /\ Len(content) = 2
    /\ content[1].content # content[2].content

\* a body assembled while one resource of the request was not found
C14_WitnessUnfound ==
    /\ Assembled
    /\ unfound_resources # <<>>
    /\ content # <<>>

\* C15: the content files discovered for a scripture resource are exactly the
\* files of the extension search whose path holds the resource code, letter
\* case ignored: none is dropped, none is added, and their order is kept.
\* Stated where initialize_from_assets has just returned; nothing assigns
\* _content_files afterwards.
ExtensionSearch(r) ==
    IF GlobFlat(r.resource_dir, r.assets.files, "usfm") # <<>>
    THEN GlobFlat(r.resource_dir, r.assets.files, "usfm")
    ELSE GlobFlat(r.resource_dir, r.assets.files, "txt")
IndexIn(x, seq) == CHOOSE k \in DOMAIN seq : seq[k] = x
JustDiscovered(i) ==
    pc = "get_content" /\ ContentLoopResources(found_resources)[idx] = i
C15_DiscoveryFiltering ==
    \A i \in DOMAIN resources :
        (IsUSFM(resources[i]) /\ JustDiscovered(i)) =>
            LET r == resources[i]
                searched == ExtensionSearch(r)
                code == Lower(Chars(r.resource_code))
            IN /\ \A k \in DOMAIN searched :
                      InSeq(searched[k], r.content_files)
                          <=> Contains(code, Lower(searched[k]))
               /\ \A k \in DOMAIN r.content_files :
                      InSeq(r.content_files[k], searched)
               /\ \A k, m \in DOMAIN r.content_files :
                      k < m => IndexIn(r.content_files[k], searched)
                                   < IndexIn(r.content_files[m], searched)

\* a scripture resource for which the search found the file of its book,
\* spelled in capitals, and the file of another book
C15_Witness ==
    \E i \in DOMAIN resources :
        /\ IsUSFM(resources[i]) /\ JustDiscovered(i)
        /\ Len(ExtensionSearch(resources[i])) = 2
        /\ Len(resources[i].content_files) = 1

\* C16: the discovered content files are .txt files only when the search for
\* the primary extension (.usfm for scripture, .md for the other kinds) found
\* no content file; when it found some, no .txt file is among them.
PrimaryContentFiles(r) ==
    IF IsUSFM(r)
    THEN GlobFlat(r.resource_dir, r.assets.files, "usfm")
    ELSE SelectSeq(GlobBook(r.resource_dir, r.resource_code, r.assets.files, "md"),
                   IsContentFile)
C16_ExtensionFallback ==
    \A i \in DOMAIN resources :
        (Happened("discover", i) /\ PrimaryContentFiles(resources[i]) # <<>>) =>
            \A k \in DOMAIN resources[i].content_files :
                ~EndsWith(resources[i].content_files[k], <<".">> \o Chars("txt"))

\* C17: each stored verse fragment is the part of the chapter from the marker
\* of its verse up to, not including, the marker of the next verse of the
\* chapter, or up to the end of the chapter for the last verse; it begins
\* with its own marker and holds no marker or text of another verse, also
\* when the verse numbers of the chapter are not consecutive.
ExpectedFragment(doc, c, v) ==
    LET start == FindElement(doc, "span", c, v)
        boundaries == {k \in DOMAIN doc : k > start /\ doc[k].tag \in {"span", "h2"}}
        stop == IF boundaries = {} THEN Len(doc) ELSE Min(boundaries) - 1
    IN SubSeq(doc, start, stop)
C17_VerseSlicingExactness ==
    verses_pc = "done" =>
        \A c \in DOMAIN chapters_content :
            \A v \in DOMAIN chapters_content[c].chapter_verses :
                LET fragment == chapters_content[c].chapter_verses[v]
                IN /\ fragment = ExpectedFragment(usfm_content, c, v)
                   /\ fragment[1] = El("span", c, v, 3)
                   /\ \A k \in DOMAIN fragment :
                          fragment[k].chapter = c /\ fragment[k].verse = v

\* a split chapter whose verses are numbered 1 and 3
C17_Witness ==
    /\ verses_pc = "done"
    /\ \E c \in DOMAIN chapters_content :
          DOMAIN chapters_content[c].chapter_verses = {1, 3}

\* C18: after the split chapters_content has one entry for each chapter
\* heading of the book, under its chapter number, and the verse mapping of a
\* chapter has one key for each verse marker of that chapter.
MarkersOf(doc, tag, c) == {k \in DOMAIN doc : doc[k].tag = tag /\ doc[k].chapter = c}
C18_ChapterVerseTreeShape ==
    verses_pc = "done" =>
        /\ DOMAIN chapters_content =
               {usfm_content[k].chapter : k \in {j \in DOMAIN usfm_content :
                                                   usfm_content[j].tag = "h2"}}
        /\ Cardinality(DOMAIN chapters_content) = Len(ChapterBreaks(usfm_content))
        /\ \A c \in DOMAIN chapters_content :
               /\ DOMAIN chapters_content[c].chapter_verses =
                      {usfm_content[k].verse : k \in MarkersOf(usfm_content, "span", c)}
               /\ Cardinality(DOMAIN chapters_content[c].chapter_verses) =
                      Cardinality(MarkersOf(usfm_content, "span", c))

\* the split of a book of two chapters with three and two verses
C18_Witness ==
    /\ verses_pc = "done"
    /\ DOMAIN chapters_content = {1, 2}
    /\ Cardinality(DOMAIN chapters_content[1].chapter_verses) = 3
    /\ Cardinality(DOMAIN chapters_content[2].chapter_verses) = 2

\* C19: the split of an HTML without any chapter heading raises nothing and
\* leaves the resource with an empty chapter mapping.
C19_DegenerateParseIsNotAnError ==
    (ChapterBreaks(usfm_content) = <<>> /\ verses_pc \notin {"idle", "ready"}) =>
        /\ verses_pc = "done"
        /\ verses_raised = "none"
        /\ chapters_content = <<>>

\* C20: when the run has left a resource unfound or a link bad, the pipeline
\* still holds the unfound list and the bad links at the end of the run, and
\* the response to the caller carries them next to the document path.
C20_DiagnosticsReturned ==
    (pc = "responded" /\ (unfound_resources # <<>> \/ BadLinksOfRun # {})) =>
        /\ \A i \in DOMAIN resources :
               ~is_found(resources[i]) => InSeq(i, unfound_resources)
        /\ response.finished_document_path # <<>>
        /\ "unfound_resources" \in DOMAIN response
        /\ "bad_links" \in DOMAIN response

\* C21: a typesetter call that exits non-zero makes run() fail: the run does
\* not reach its end, no PDF is copied afterwards and no path is reported.
TypesetFailed ==
    \E k \in DOMAIN effects : effects[k].op = "typeset" /\ effects[k].status # 0
C21_TypesetterFailureIsHard ==
    TypesetFailed =>
        /\ pc = "raised"
        /\ \A k \in DOMAIN effects : effects[k].op # "copy"
        /\ response = NoResponse

\* C22: the registry holds one entry for each registered locator, and the
\* entry has the id, link and title of the last registration of that locator;
\* registering a locator again with the data it was just registered with
\* leaves the registry as it was.
LastRegistration(rc, calls) ==
    calls[CHOOSE k \in DOMAIN calls :
             /\ calls[k].rc = rc
             /\ \A m \in DOMAIN calls : calls[m].rc = rc => m <= k]
LastWins(calls) ==
    [rc \in {calls[k].rc : k \in DOMAIN calls} |->
        [rc |-> rc,
         id |-> LastRegistration(rc, calls).id,
         link |-> <<"#">> \o LastRegistration(rc, calls).id,
         title |-> LastRegistration(rc, calls).title]]
C22_RegistrationLastWriteWins ==
    registered # <<>> =>
        /\ DOMAIN registry.resource_data = {registered[k].rc : k \in DOMAIN registered}
        /\ \A rc \in DOMAIN registry.resource_data :
               registry.resource_data[rc] = LastWins(registered)[rc]
        /\ (Len(registered) >= 2
               /\ registered[Len(registered)] = registered[Len(registered) - 1]) =>
                  \A rc \in DOMAIN registry.resource_data :
                      registry.resource_data[rc] =
                          LastWins(SubSeq(registered, 1, Len(registered) - 1))[rc]

\* a locator registered a second time with another id and title
C22_Witness ==
    /\ Len(registered) >= 2
    /\ registered[1].rc = registered[2].rc
    /\ registered[1].id # registered[2].id
    /\ registered[1].title # registered[2].title

\* C23: the chapter directories of a book are processed in ascending order of
\* their chapter number, whatever the width of their names.
C23_ChapterOrderIsNumeric ==
    processed.done =>
        \A k, m \in DOMAIN processed.chapters :
            k < m => IntOf(processed.chapters[k]) <= IntOf(processed.chapters[m])

\* the unit with locator rc of resource i has been scanned and its text
\* references rc itself
SelfReferencing(i, rc) ==
    /\ rc \in DOMAIN resources[i].rc_references
    /\ InSeq(rc, resources[i].rc_references[rc])

IdTagPositions == {k \in DOMAIN unit_md : unit_md[k].id_tag}

\* C25: the hidden anchor tag is put after the first heading of a unit, once
\* however many headings the unit has, and before any other transform of the
\* unit's Markdown.
C25_AnchorInjectionFirst ==
    unit_log # <<>> =>
        /\ Cardinality(IdTagPositions) <= 1
        /\ \A k \in IdTagPositions : k - 1 = FirstHeading(unit_md)
        /\ unit_log[1] = "id_tag"

\* the part of C25 about the place and the number of the anchor tags
C25_AnchorOnceAfterFirstHeading ==
    unit_log # <<>> =>
        /\ Cardinality(IdTagPositions) = (IF FirstHeading(unit_md) = 0 THEN 0 ELSE 1)
        /\ \A k \in IdTagPositions : k - 1 = FirstHeading(unit_md)

\* C26: the locator links of a directory-structured resource with content are
\* rewritten while the content is Markdown and the conversion to HTML runs
\* afterwards, once; with empty content neither runs and the content stays
\* empty.
C26_RewriteBeforeConversion ==
    t_pc = "transformed" =>
        IF t_resource.content = <<>>
        THEN /\ t_resource.transforms = <<>>
             /\ t_resource.format = "md"
        ELSE /\ t_resource.transforms = <<Step("replace_rc_links", "md"),
                                          Step("transform_rc_links", "md"),
                                          Step("md2html", "md")>>
             /\ t_resource.format = "html"
             /\ \A k \in DOMAIN t_resource.content :
                   t_resource.content[k].kind = "rc" =>
                       t_resource.content[k].rc \notin DOMAIN t_resource.resource_data

C26_Witness ==
    /\ t_pc = "transformed"
    /\ \E k \in DOMAIN t_resource.content : t_resource.content[k].kind = "link"
    /\ \E k \in DOMAIN t_resource.content : t_resource.content[k].kind = "rc"

C26_WitnessEmpty ==
    /\ t_pc = "transformed"
    /\ t_resource.content = <<>>

\* a verse-level assembly strategy was requested
VerseLevelRequested == assembly_strategy_kind \in {"verse", "verse2"}

\* C27: get_content of a scripture resource runs SPLIT_INTO_VERSES exactly when
\* its assembly strategy kind is a verse-level one, and then after
\* PARSE_TO_HTML; with another kind the chapter mapping stays empty and the
\* HTML content is there all the same.
C27_ScriptureParserStateMachine ==
    parser_log # <<>> =>
        /\ parser_log[1] = "PARSE_TO_HTML"
        /\ usfm_content = html_file
        /\ InSeq("SPLIT_INTO_VERSES", parser_log) <=> VerseLevelRequested
        /\ \A k \in DOMAIN parser_log : parser_log[k] = "SPLIT_INTO_VERSES" => k = 2
        /\ ~VerseLevelRequested =>
              /\ chapters_content = <<>>
              /\ verses_raised = "none"

C27_Witness ==
    /\ parser_log = <<"PARSE_TO_HTML", "SPLIT_INTO_VERSES">>
    /\ DOMAIN chapters_content = {1, 2}

C27_WitnessBook ==
    /\ parser_log = <<"PARSE_TO_HTML">>
    /\ assembly_strategy_kind = "BOOK"
    /\ usfm_content # <<>>

\* C28: a git resource is acquired by a clone alone; a zip resource by a
\* download and, once the download has finished, an extraction into the
\* resource directory; a flat resource is never cloned and never extracted.
C28_ProvisioningPerKind ==
    \A k \in DOMAIN effects :
        LET e == effects[k]
        IN /\ e.op = "clone" => resources[e.res].resource_source = GIT
           /\ e.op = "download" =>
                 /\ resources[e.res].resource_source \in {ZIP, FLAT}
                 /\ (resources[e.res].resource_source = ZIP /\ e.status = 0) =>
                       /\ k < Len(effects)
                       /\ effects[k + 1].op = "unzip"
                       /\ effects[k + 1].res = e.res
           /\ e.op = "unzip" =>
                 /\ resources[e.res].resource_source = ZIP
                 /\ k > 1
                 /\ effects[k - 1] = Effect("download", e.res, 0)
                 /\ e.status = 0 =>
                       /\ resources[e.res].resource_dir \in DOMAIN disk
                       /\ disk[resources[e.res].resource_dir].populated

C28_Witness ==
    \E i, j \in DOMAIN resources :
        /\ resources[i].resource_source = GIT /\ Happened("clone", i)
        /\ resources[j].resource_source = ZIP /\ Happened("unzip", j)
        /\ disk[resources[j].resource_dir].populated

C28_WitnessFlat ==
    \E i \in DOMAIN resources :
        /\ resources[i].resource_source = FLAT
        /\ Happened("download", i)
        /\ FetchFinished

Occurrences(i, seq) == Cardinality({k \in DOMAIN seq : seq[k] = i})
Ascending(seq) == \A k, m \in DOMAIN seq : k < m => seq[k] < seq[m]

\* C29: once _fetch_resources has finished, every resource of the request is
\* in exactly one of found_resources and unfound_resources, once; it is in
\* found_resources exactly when its lookup gave a URL; both lists keep the
\* order of the request.
C29_FoundUnfoundPartition ==
    FetchFinished =>
        /\ \A i \in DOMAIN resources :
              /\ Occurrences(i, found_resources) + Occurrences(i, unfound_resources) = 1
              /\ InSeq(i, found_resources) <=> resources[i].resource_url # NoUrl
        /\ Ascending(found_resources)
        /\ Ascending(unfound_resources)

C29_Witness ==
    /\ FetchFinished
    /\ Len(found_resources) = 2

C29_WitnessUnfound ==
    /\ FetchFinished
    /\ found_resources # <<>>
    /\ unfound_resources # <<>>

\* the calls of get_files: each ends in a clone or a download
GetFilesCalls == {k \in DOMAIN effects : effects[k].op \in {"clone", "download"}}

\* C30: get_files is called once for each resource whose lookup gave a URL and
\* never for one without; at every call the resource has its type, directory
\* and URL, as _acquire_resource requires; no directory is made for an unfound
\* resource.
C30_ProvisionOnlyLocated ==
    LET calls == GetFilesCalls
    IN /\ \A k \in calls :
             LET i == effects[k].res
             IN /\ resources[i].resource_url # NoUrl
                /\ resources[i].resource_type # ""
                /\ resources[i].resource_dir # <<>>
                /\ \E j \in 1..(k - 1) : effects[j] = Effect("lookup", i, 0)
                /\ \A m \in calls : effects[m].res = i => m = k
       /\ \A k \in DOMAIN effects :
             effects[k].op \in {"mkdir", "unzip"} =>
                 resources[effects[k].res].resource_url # NoUrl
       /\ FetchFinished =>
             \A i \in DOMAIN resources :
                 resources[i].resource_url # NoUrl =>
                     \E k \in calls : effects[k].res = i

C30_Witness ==
    \E i, j \in DOMAIN resources :
        /\ FetchFinished
        /\ resources[i].resource_url = NoUrl
        /\ Happened("mkdir", j)
        /\ \E k \in GetFilesCalls : effects[k].res = j

====
